---- MODULE Spec2Model ----
(***************************************************************************)
(* Coin session controller of AR-Treasure-Hunt-v2.                         *)
(*                                                                         *)
(* The repository holds four playable variants of the same minigame:       *)
(*   "clickDeferred"   src/src/index.js 1-258     pointer click, the       *)
(*                     entity is destroyed by setTimeout(.., 0)            *)
(*   "pollMulti"       src/src/index.js 260-551   proximity poll over the  *)
(*                     activeTokens list, deferred destroy, threshold 5    *)
(*   "pollSingle"      src/unnamed/part_000       proximity poll, one      *)
(*                     token, destroy inside collectToken                  *)
(*   "clickImmediate"  src/unnamed/part_001 1-237 pointer click, one       *)
(*                     token, destroy inside collectToken                  *)
(* (part_001 239-420 is a fifth file with a scoreboard and no collection   *)
(* logic at all; it has no behaviour to model.)                            *)
(*                                                                         *)
(* Lengths are in tenths of a world unit, so that the collection radii     *)
(* 0.4 and 1.5 and the token height 0.5 are the integers 4, 15 and 5.      *)
(***************************************************************************)
EXTENDS Integers, Sequences, FiniteSets, TLC

VARIABLES
  variant,        \* which of the four programs runs
  score,          \* let score
  gameOver,       \* let gameOver
  tokenEntity,    \* let tokenEntity (single-token variants), Null = null
  tokenExists,    \* let tokenExists (single-token variants)
  activeTokens,   \* const activeTokens = [] (pollMulti), a sequence of entities
  nextId,         \* entities 1 .. nextId-1 have been created by createToken
  destroyed,      \* entities with entity.destroyed = true
  listeners,      \* entities whose object3D carries the 'pointerdown' listener
  pos,            \* world position of each entity's object3D (NoPos once destroyed)
  timers,         \* pending setTimeout callbacks, in the order they were scheduled
  board,          \* what the last updateScoreboard() painted
  collectPlays,   \* number of collectSound.play() calls
  victoryPlays,   \* number of victorySound.play() calls
  collectCount,   \* history: how often each entity passed the guards of collect
  timer,          \* the timer board of the timer variant: started, finished, elapsed
  signals,        \* history: number of duplicate or stale collect signals so far
  last            \* history: the handler that ran last and what it did

vars == <<variant, score, gameOver, tokenEntity, tokenExists, activeTokens, nextId,
          destroyed, listeners, pos, timers, board, collectPlays, victoryPlays,
          collectCount, timer, signals, last>>

\* the state the program itself holds, without its pending timers
progVars == <<score, gameOver, tokenEntity, tokenExists, activeTokens, nextId,
              destroyed, listeners, pos, board, collectPlays, victoryPlays>>

(***************************************************************************)
(* Program constants                                                       *)
(***************************************************************************)
Variants == {"clickDeferred", "clickImmediate", "pollSingle", "pollMulti"}

SingleVariants == {"clickDeferred", "clickImmediate", "pollSingle"}

WinScoreSingle == 10

WinScoreMulti == 5

RadiusSingle == 4

RadiusMulti == 15

TokenY == 5

Null == 0

NoPos == <<>>

Threshold == IF variant = "pollMulti" THEN WinScoreMulti ELSE WinScoreSingle

(***************************************************************************)
(* Inputs.  Math.random() places a token at (x, 0.5, z); the camera may be *)
(* anywhere.  The sets below put a token at distance 3, 4 (= the radius of *)
(* pollSingle), 14, 15 (= the radius of pollMulti) and farther.            *)
(***************************************************************************)
MaxSpawnX == 1

MaxSignals == 2

TokenPositions == { <<x, TokenY, 0>> : x \in 0..MaxSpawnX }

\* The click variants never read a token's position: one representative is enough.
SpawnPositions(v) ==
  IF v \in {"pollSingle", "pollMulti"} THEN TokenPositions ELSE { <<0, TokenY, 0>> }

PlayerPositions == { <<0, TokenY, z>> : z \in {3, 4, 14, 15} }

(***************************************************************************)
(* Helpers                                                                 *)
(***************************************************************************)
Entities == 1..(nextId - 1)

RemoveAt(s, i) == SubSeq(s, 1, i - 1) \o SubSeq(s, i + 1, Len(s))

\* const dx = ..; const dy = ..; const dz = ..; distSq = dx*dx + dy*dy + dz*dz
DistSq(a, b) ==
  (a[1] - b[1]) * (a[1] - b[1]) + (a[2] - b[2]) * (a[2] - b[2])
    + (a[3] - b[3]) * (a[3] - b[3])

\* if (distSq < radiusSq)
Within_inclusive(d, r) == d <= r * r

Within(d, r) == d < r * r

\* activeTokens.indexOf(entity): the first index holding e, 0 for -1
IndexOf(s, e) ==
  IF \E i \in 1..Len(s) : s[i] = e
  THEN CHOOSE i \in 1..Len(s) : s[i] = e /\ \A j \in 1..(i - 1) : s[j] # e
  ELSE 0

\* const idx = activeTokens.indexOf(entity); if (idx !== -1) activeTokens.splice(idx, 1)
RemoveFromActive_keep(s, e) == s

RemoveFromActive(s, e) ==
  IF IndexOf(s, e) # 0 THEN RemoveAt(s, IndexOf(s, e)) ELSE s

\* score += 1
IncScore_assign(s) == 1

IncScore(s) == s + 1

\* if (score >= 10) / if (score >= 5)
ReachedWin_above(s, t) == s > t

ReachedWin(s, t) == s >= t

\* setTimeout(() => { if (!gameOver) { ... } }, 200): reading the flag decides
\* whether the callback spawns, and leaves the flag as it is
SpawnGate_always(g) == [spawn |-> TRUE, flag |-> g]

SpawnGate_restart(g) == [spawn |-> TRUE, flag |-> FALSE]

SpawnGate(g) == [spawn |-> ~g, flag |-> g]

DestroyTimer(e) == [kind |-> "destroy", ent |-> e]

SpawnTimer == [kind |-> "spawn", ent |-> Null]

\* A timer waits for every timer that was started before it with a timeout
\* not larger than its own: a 0 ms destroy waits for the earlier destroys, a
\* 200 ms spawn for every earlier timer.
CanFire(i) ==
  \A j \in 1..(i - 1) :
    /\ timers[j].kind # timers[i].kind
    /\ timers[i].kind = "spawn" => timers[j].kind # "destroy"

Did(op, e, p, hits, effects) ==
  [op |-> op, ent |-> e, player |-> p, hits |-> hits, effects |-> effects]

\* a guard returned early: nothing but the history changes
NoOp_afterSound(op, e, p) ==
  /\ last' = Did(op, e, p, <<>>, <<"collectSound">>)
  /\ collectPlays' = collectPlays + 1
  /\ UNCHANGED <<variant, score, gameOver, tokenEntity, tokenExists, activeTokens,
                 nextId, destroyed, listeners, pos, timers, board, victoryPlays,
                 collectCount>>

NoOp(op, e, p) ==
  /\ last' = Did(op, e, p, <<>>, <<>>)
  /\ UNCHANGED <<variant, score, gameOver, tokenEntity, tokenExists, activeTokens,
                 nextId, destroyed, listeners, pos, timers, board, collectPlays,
                 victoryPlays, collectCount>>

\* the statements of a collect that passed its guards, in source order
collectSteps_scoreFirst(v) == <<"remove", "score", "collectSound", "render">>

collectSteps(v) ==
  CASE v = "pollMulti" ->
         <<"remove", "collectSound", "scheduleDestroy", "score", "render">>
    [] v = "clickDeferred" ->
         <<"collectSound", "removeListener", "scheduleDestroy", "remove", "score",
           "render">>
    [] OTHER ->
         <<"remove", "collectSound", "destroy", "score", "render">>

\* the timer board before the first collection
TimerOff == [started |-> FALSE, finished |-> FALSE, elapsed |-> 0]

\* updateScoreboard(): paints the win banner iff gameOver, and the score
updateScoreboard_noBanner(s, g) == [score |-> s, win |-> FALSE]

updateScoreboard(s, g) == [score |-> s, win |-> g]

(***************************************************************************)
(* Initial state: module scope, then the body of World.create(..).then up  *)
(* to the initial createToken().                                           *)
(***************************************************************************)
Init ==
  /\ variant \in Variants
  /\ score = 0
  /\ gameOver = FALSE
  /\ nextId = 2
  /\ destroyed = {}
  /\ \E p \in SpawnPositions(variant) : pos = [e \in {1} |-> p]
  /\ tokenEntity = IF variant = "pollMulti" THEN Null ELSE 1
  /\ tokenExists = (variant # "pollMulti")
  /\ activeTokens = IF variant = "pollMulti" THEN <<1>> ELSE <<>>
  /\ listeners = IF variant \in {"clickDeferred", "clickImmediate"} THEN {1} ELSE {}
  /\ timers = <<>>
  /\ board = updateScoreboard(0, FALSE)
  /\ collectPlays = 0
  /\ victoryPlays = 0
  /\ collectCount = [e \in {1} |-> 0]
  /\ signals = 0
  /\ timer = TimerOff
  /\ last = Did("init", Null, NoPos, <<>>, <<>>)

(***************************************************************************)
(* createToken: a new entity at a random position.  The variants differ in *)
(* what else they attach to it.                                            *)
(***************************************************************************)
NewEntity(p) ==
  /\ nextId' = nextId + 1
  /\ pos' = [e \in 1..nextId |-> IF e = nextId THEN p ELSE pos[e]]
  /\ collectCount' = [e \in 1..nextId |-> IF e = nextId THEN 0 ELSE collectCount[e]]

\* pollMulti: activeTokens.push(entity)
createTokenMulti(p) ==
  /\ NewEntity(p)
  /\ activeTokens' = Append(activeTokens, nextId)
  /\ UNCHANGED listeners

\* clickDeferred, clickImmediate: addEventListener('pointerdown', ..)
createTokenClick(p) ==
  /\ NewEntity(p)
  /\ listeners' = listeners \cup {nextId}
  /\ UNCHANGED activeTokens

\* pollSingle: the entity only
createTokenPoll(p) ==
  /\ NewEntity(p)
  /\ UNCHANGED <<listeners, activeTokens>>

(***************************************************************************)
(* pollMulti: collectSpecificToken(entity)                                 *)
(***************************************************************************)
collectSpecificToken(op, e, p, d) ==
  IF gameOver \/ e = Null \/ e \in destroyed
  THEN NoOp(op, e, p)
  ELSE LET s1  == IncScore(score)
           win == ReachedWin(s1, WinScoreMulti)
       IN  /\ activeTokens' = RemoveFromActive(activeTokens, e)
           /\ collectPlays' = collectPlays + 1
           /\ score' = s1
           /\ gameOver' = (win \/ gameOver)
           /\ board' = updateScoreboard(s1, gameOver')
           /\ victoryPlays' = IF win THEN victoryPlays + 1 ELSE victoryPlays
           /\ timers' = IF win THEN Append(timers, DestroyTimer(e))
                        ELSE timers \o <<DestroyTimer(e), SpawnTimer>>
           /\ collectCount' = [collectCount EXCEPT ![e] = @ + 1]
           /\ last' = Did(op, e, p, << <<e, d>> >>,
                          collectSteps(variant)
                          \o (IF win THEN <<"gameOver", "render", "victorySound">>
                              ELSE <<"scheduleSpawn">>))
           /\ UNCHANGED <<variant, tokenEntity, tokenExists, nextId, destroyed,
                          listeners, pos>>

\* the for loop of CoinCollectSystem.update: the first index whose entity is
\* not destroyed and lies within the radius (0: the loop ran to its end)
FirstHit_last(p) ==
  LET hit(i) == /\ activeTokens[i] # Null
                /\ activeTokens[i] \notin destroyed
                /\ Within(DistSq(pos[activeTokens[i]], p), RadiusMulti)
  IN  IF \E i \in 1..Len(activeTokens) : hit(i)
      THEN CHOOSE i \in 1..Len(activeTokens) :
             hit(i) /\ \A j \in (i + 1)..Len(activeTokens) : ~hit(j)
      ELSE 0

FirstHit(p) ==
  LET hit(i) == /\ activeTokens[i] # Null
                /\ activeTokens[i] \notin destroyed
                /\ Within(DistSq(pos[activeTokens[i]], p), RadiusMulti)
  IN  IF \E i \in 1..Len(activeTokens) : hit(i)
      THEN CHOOSE i \in 1..Len(activeTokens) :
             hit(i) /\ \A j \in 1..(i - 1) : ~hit(j)
      ELSE 0

\* CoinCollectSystem.update(delta, time)
CoinCollectSystem_update(p) ==
  IF gameOver \/ Len(activeTokens) = 0 \/ FirstHit(p) = 0
  THEN NoOp("update", Null, p)
  ELSE LET e == activeTokens[FirstHit(p)]
       IN  collectSpecificToken("update", e, p, DistSq(pos[e], p))

(***************************************************************************)
(* pollSingle and clickImmediate: collectToken()                           *)
(***************************************************************************)
collectToken(op, src, p, d) ==
  IF ~tokenExists \/ tokenEntity = Null \/ gameOver
  THEN NoOp(op, src, p)
  ELSE LET e   == tokenEntity
           s1  == IncScore(score)
           win == ReachedWin(s1, WinScoreSingle)
       IN  /\ tokenExists' = FALSE
           /\ collectPlays' = collectPlays + 1
           /\ destroyed' = destroyed \cup {e}
           /\ pos' = [pos EXCEPT ![e] = NoPos]
           /\ tokenEntity' = Null
           /\ score' = s1
           /\ gameOver' = (win \/ gameOver)
           /\ board' = updateScoreboard(s1, gameOver')
           /\ victoryPlays' = IF win THEN victoryPlays + 1 ELSE victoryPlays
           /\ timers' = IF win THEN timers ELSE Append(timers, SpawnTimer)
           /\ collectCount' = [collectCount EXCEPT ![e] = @ + 1]
           /\ last' = Did(op, src, p, << <<e, d>> >>,
                          collectSteps(variant)
                          \o (IF win THEN <<"gameOver", "render", "victorySound">>
                              ELSE <<"scheduleSpawn">>))
           /\ UNCHANGED <<variant, activeTokens, nextId, listeners>>

\* clickImmediate: the same function, registered as the 'pointerdown' listener
collectTokenClick(op, src, p, d) == collectToken(op, src, p, d)

\* pollSingle: TokenCollectSystem.update(delta, time)
TokenCollectSystem_update(p) ==
  IF ~tokenExists \/ tokenEntity = Null \/ gameOver
  THEN NoOp("update", Null, p)
  ELSE IF Within(DistSq(pos[tokenEntity], p), RadiusSingle)
       THEN collectToken("update", tokenEntity, p, DistSq(pos[tokenEntity], p))
       ELSE NoOp("update", Null, p)

(***************************************************************************)
(* clickDeferred: onTokenClicked(event) and handleTokenCollected(entity)   *)
(* entity.object3D is the tokenModel passed to createTransformEntity, so   *)
(* removeEventListener takes off the listener createToken put on.          *)
(***************************************************************************)
handleTokenCollected_keepsToken(op, e) ==
  LET s1  == IncScore(score)
      win == ReachedWin(s1, WinScoreSingle)
  IN  /\ collectPlays' = collectPlays + 1
      /\ listeners' = listeners \ {e}
      /\ tokenEntity' = IF tokenEntity = e THEN Null ELSE tokenEntity
      /\ tokenExists' = tokenExists
      /\ score' = s1
      /\ gameOver' = (win \/ gameOver)
      /\ board' = updateScoreboard(s1, gameOver')
      /\ victoryPlays' = IF win THEN victoryPlays + 1 ELSE victoryPlays
      /\ timers' = IF win THEN Append(timers, DestroyTimer(e))
                   ELSE timers \o <<DestroyTimer(e), SpawnTimer>>
      /\ collectCount' = [collectCount EXCEPT ![e] = @ + 1]
      /\ last' = Did(op, e, NoPos, << <<e, -1>> >>,
                     collectSteps(variant)
                     \o (IF win THEN <<"gameOver", "render", "victorySound">>
                         ELSE <<"scheduleSpawn">>))
      /\ UNCHANGED <<variant, activeTokens, nextId, destroyed, pos>>

handleTokenCollected(op, e) ==
  LET s1  == IncScore(score)
      win == ReachedWin(s1, WinScoreSingle)
  IN  /\ collectPlays' = collectPlays + 1
      /\ listeners' = listeners \ {e}
      /\ tokenEntity' = IF tokenEntity = e THEN Null ELSE tokenEntity
      /\ tokenExists' = FALSE
      /\ score' = s1
      /\ gameOver' = (win \/ gameOver)
      /\ board' = updateScoreboard(s1, gameOver')
      /\ victoryPlays' = IF win THEN victoryPlays + 1 ELSE victoryPlays
      /\ timers' = IF win THEN Append(timers, DestroyTimer(e))
                   ELSE timers \o <<DestroyTimer(e), SpawnTimer>>
      /\ collectCount' = [collectCount EXCEPT ![e] = @ + 1]
      /\ last' = Did(op, e, NoPos, << <<e, -1>> >>,
                     collectSteps(variant)
                     \o (IF win THEN <<"gameOver", "render", "victorySound">>
                         ELSE <<"scheduleSpawn">>))
      /\ UNCHANGED <<variant, activeTokens, nextId, destroyed, pos>>

onTokenClicked(op, e) ==
  IF gameOver THEN NoOp(op, e, NoPos)
  ELSE IF e = Null \/ e \in destroyed THEN NoOp(op, e, NoPos)
  ELSE handleTokenCollected(op, e)

(***************************************************************************)
(* Deferred callbacks                                                      *)
(***************************************************************************)
\* setTimeout(() => { if (!entity.destroyed) entity.destroy(); }, 0)
destroyCallback_inverted(e) ==
  IF e \in destroyed
  THEN /\ destroyed' = destroyed \cup {e}
       /\ pos' = [pos EXCEPT ![e] = NoPos]
       /\ last' = Did("destroyTimer", e, NoPos, <<>>, <<"destroy">>)
  ELSE /\ UNCHANGED <<destroyed, pos>>
       /\ last' = Did("destroyTimer", e, NoPos, <<>>, <<>>)

destroyCallback(e) ==
  IF e \notin destroyed
  THEN /\ destroyed' = destroyed \cup {e}
       /\ pos' = [pos EXCEPT ![e] = NoPos]
       /\ last' = Did("destroyTimer", e, NoPos, <<>>, <<"destroy">>)
  ELSE /\ UNCHANGED <<destroyed, pos>>
       /\ last' = Did("destroyTimer", e, NoPos, <<>>, <<>>)

\* setTimeout(() => { if (!gameOver) { [tokenEntity =] createToken();
\*                                     [tokenExists = true;] } }, 200)
spawnCallback(p) ==
  LET g == SpawnGate(gameOver)
  IN  /\ gameOver' = g.flag
      /\ IF g.spawn
         THEN /\ CASE variant = "pollMulti"  -> createTokenMulti(p)
                   [] variant = "pollSingle" -> createTokenPoll(p)
                   [] OTHER                  -> createTokenClick(p)
              /\ tokenEntity' = IF variant = "pollMulti" THEN tokenEntity ELSE nextId
              /\ tokenExists' = IF variant = "pollMulti" THEN tokenExists ELSE TRUE
              /\ last' = Did("spawnTimer", nextId, NoPos, <<>>, <<"spawn">>)
         ELSE /\ UNCHANGED <<nextId, pos, collectCount, listeners, activeTokens,
                             tokenEntity, tokenExists>>
              /\ last' = Did("spawnTimer", Null, NoPos, <<>>, <<>>)

(***************************************************************************)
(* Actions: what the host delivers to the program                          *)
(***************************************************************************)
\* a frame of pollMulti
FrameMulti ==
  /\ variant = "pollMulti"
  /\ \E p \in PlayerPositions : CoinCollectSystem_update(p)
  /\ UNCHANGED <<signals, timer>>

\* a frame of pollSingle
FrameSingle ==
  /\ variant = "pollSingle"
  /\ \E p \in PlayerPositions : TokenCollectSystem_update(p)
  /\ UNCHANGED <<signals, timer>>

\* clickDeferred: a pointerdown on a token in the scene that carries the listener
ClickDeferred ==
  /\ variant = "clickDeferred"
  /\ \E e \in listeners \ destroyed : onTokenClicked("pointerdown", e)
  /\ UNCHANGED <<signals, timer>>

\* clickImmediate: a pointerdown on a token in the scene that carries the listener
ClickImmediate ==
  /\ variant = "clickImmediate"
  /\ \E e \in listeners \ destroyed : collectTokenClick("pointerdown", e, NoPos, -1)
  /\ UNCHANGED <<signals, timer>>

\* a pending destroy callback runs
DestroyTimerFires ==
  \E i \in 1..Len(timers) :
    /\ timers[i].kind = "destroy"
    /\ CanFire(i)
    /\ timers' = RemoveAt(timers, i)
    /\ destroyCallback(timers[i].ent)
    /\ UNCHANGED <<variant, score, gameOver, tokenEntity, tokenExists, activeTokens,
                   nextId, listeners, board, collectPlays, victoryPlays, collectCount,
                   signals, timer>>

\* a pending replacement-spawn callback runs
SpawnTimerFires ==
  \E i \in 1..Len(timers), p \in SpawnPositions(variant) :
    /\ timers[i].kind = "spawn"
    /\ CanFire(i)
    /\ timers' = RemoveAt(timers, i)
    /\ spawnCallback(p)
    /\ UNCHANGED <<variant, score, destroyed, board, collectPlays, victoryPlays,
                   signals, timer>>

Next ==
  \/ FrameMulti
  \/ FrameSingle
  \/ ClickDeferred
  \/ ClickImmediate
  \/ DestroyTimerFires
  \/ SpawnTimerFires

Spec == Init /\ [][Next]_vars

\* a host step that collects a token: the player reaches or clicks a live token
CollectStep == Next /\ score' = score + 1

\* The event loop runs every expired setTimeout callback, and the player
\* keeps collecting the live token.
SpecFair ==
  /\ Spec
  /\ WF_vars(DestroyTimerFires)
  /\ WF_vars(SpawnTimerFires)
  /\ WF_vars(CollectStep)

(***************************************************************************)
(* The collect entry point called with any token that was ever created:    *)
(* the duplicate or stale collection signal (a second trigger source, an   *)
(* event still in flight) that the guards of collect are there to absorb.  *)
(***************************************************************************)
Signal ==
  /\ signals < MaxSignals
  /\ signals' = signals + 1
  /\ UNCHANGED timer
  /\ \E e \in Entities :
    CASE variant = "pollMulti"      -> collectSpecificToken("signal", e, NoPos, -1)
      [] variant = "clickDeferred"  -> onTokenClicked("signal", e)
      [] variant = "clickImmediate" -> /\ e \in listeners
                                       /\ collectTokenClick("signal", e, NoPos, -1)
      [] OTHER                      -> collectToken("signal", e, NoPos, -1)

NextSignal == Next \/ Signal

SpecSignal == Init /\ [][NextSignal]_vars

(***************************************************************************)
(* The timer variant.  Its source is not among the files above; collect    *)
(* step (d) and the timer scenario of the specification are modelled: the  *)
(* timer starts at 0 with the collection that makes score 1, advances with *)
(* the frame delta while it runs, and is frozen by the collection that     *)
(* makes score StopMilestone.  Tokens are always available to collect.     *)
(***************************************************************************)
StopMilestone == 5

MaxElapsed == 12

FrameDeltas == {1, 2}

\* collect step (d): start at score 1, freeze at the stop milestone
TimerOnCollect(t, s) ==
  IF s = 1 THEN [started |-> TRUE, finished |-> FALSE, elapsed |-> 0]
  ELSE IF s = StopMilestone THEN [t EXCEPT !.finished = TRUE]
  ELSE t

\* a frame: elapsed grows by the frame delta while the timer runs
TimerAdvance_always(t, delta) ==
  IF t.started THEN [t EXCEPT !.elapsed = @ + delta] ELSE t

TimerAdvance(t, delta) ==
  IF t.started /\ ~t.finished THEN [t EXCEPT !.elapsed = @ + delta] ELSE t

InitTimer ==
  /\ variant = "timerBoard"
  /\ score = 0
  /\ gameOver = FALSE
  /\ nextId = 2
  /\ destroyed = {}
  /\ pos = [e \in {1} |-> <<0, TokenY, 0>>]
  /\ tokenEntity = 1
  /\ tokenExists = TRUE
  /\ activeTokens = <<>>
  /\ listeners = {}
  /\ timers = <<>>
  /\ board = updateScoreboard(0, FALSE)
  /\ collectPlays = 0
  /\ victoryPlays = 0
  /\ collectCount = [e \in {1} |-> 0]
  /\ signals = 0
  /\ timer = TimerOff
  /\ last = Did("init", Null, NoPos, <<>>, <<>>)

\* collect(token) of the timer variant, steps (b) to (e)
TimerCollect ==
  /\ ~gameOver
  /\ score' = IncScore(score)
  /\ timer' = TimerOnCollect(timer, score')
  /\ gameOver' = ReachedWin(score', Threshold)
  /\ board' = updateScoreboard(score', gameOver')
  /\ collectPlays' = collectPlays + 1
  /\ victoryPlays' = IF gameOver' THEN victoryPlays + 1 ELSE victoryPlays
  /\ last' = Did("timerCollect", Null, NoPos, <<>>, <<>>)
  /\ UNCHANGED <<variant, tokenEntity, tokenExists, activeTokens, nextId, destroyed,
                 listeners, pos, timers, collectCount, signals>>

\* a frame tick with its elapsed time
TimerTick ==
  \E delta \in FrameDeltas :
    /\ timer.elapsed + delta <= MaxElapsed
    /\ timer' = TimerAdvance(timer, delta)
    /\ last' = Did("tick", delta, NoPos, <<>>, <<>>)
    /\ UNCHANGED <<variant, score, gameOver, tokenEntity, tokenExists, activeTokens,
                   nextId, destroyed, listeners, pos, timers, board, collectPlays,
                   victoryPlays, collectCount, signals>>

NextTimer == TimerCollect \/ TimerTick

SpecTimer == InitTimer /\ [][NextTimer]_vars

(***************************************************************************)
(* Properties                                                              *)
(***************************************************************************)
RECURSIVE SumCounts(_)
SumCounts(n) == IF n = 0 THEN 0 ELSE collectCount[n] + SumCounts(n - 1)

\* the number of collections that passed the guards so far
Collections == SumCounts(nextId - 1)

Radius == IF variant = "pollMulti" THEN RadiusMulti ELSE RadiusSingle

\* the collections made by the step: entities whose count went up
CollectedNow(e) == collectCount'[e] > collectCount[e]

\* C1: a collect signal for a token that collect already accepted leaves the
\* score, the active token set (the current-token slot) and the pending
\* timers as they are, also while the token's deferred destroy is pending.
C1_SecondCollectIsNoOp ==
  [][\A e \in Entities :
       (collectCount[e] >= 1 /\ signals' = signals + 1 /\ last'.ent = e)
         => /\ score' = score
            /\ activeTokens' = activeTokens
            /\ tokenEntity' = tokenEntity
            /\ tokenExists' = tokenExists
            /\ timers' = timers]_vars

\* C2: score is the number of collections that passed the guards, and a step
\* changes it by 0 or by +1.
C2_ScoreCountsCollections ==
  /\ [](score = Collections)
  /\ [][score' = score \/ score' = score + 1]_vars

C2_Witness == score >= 2 /\ Collections >= 2 /\ last.hits # <<>>

\* C3: once gameOver is true no step creates a token or changes the score,
\* whether it is a frame, a pointer event, a collect signal or a timer.
C3_GameOverFreezes ==
  [][gameOver => /\ score' = score
                 /\ nextId' = nextId
                 /\ activeTokens' = activeTokens
                 /\ tokenEntity' = tokenEntity
                 /\ tokenExists' = tokenExists]_vars

C3_Witness == gameOver /\ score = Threshold /\ last.op = "spawnTimer"

\* C4: gameOver is true exactly when score has reached the variant's win
\* threshold, and the step that sets it is the collection that takes score
\* from threshold - 1 to threshold.
C4_WinFlagTracksThreshold ==
  /\ [](gameOver <=> score >= Threshold)
  /\ [][(~gameOver /\ gameOver')
          => (score = Threshold - 1 /\ score' = Threshold /\ last'.hits # <<>>)]_vars

C4_Witness == gameOver /\ score = Threshold /\ last.hits # <<>>

\* C5: one run of the per-frame proximity check collects at most one token,
\* and only a token whose squared distance to the player was strictly below
\* the squared radius.
C5_AtMostOneStrictlyInside ==
  [][last'.op = "update"
       => /\ Collections' <= Collections + 1
          /\ \A e \in Entities :
               CollectedNow(e) => DistSq(pos[e], last'.player) < Radius * Radius]_vars

\* the check took one token while a second live token was inside the radius too
C5_Witness ==
  /\ last.op = "update"
  /\ Len(last.hits) = 1
  /\ \E i \in 1..Len(activeTokens) :
       /\ activeTokens[i] \notin destroyed
       /\ DistSq(pos[activeTokens[i]], last.player) < Radius * Radius

\* C6: no token passes the guards of collect more than once, under every
\* interleaving of frames, pointer events and deferred callbacks.
C6_CollectedAtMostOnce == \A e \in Entities : collectCount[e] <= 1

\* a frame or a click ran while a collected token was not destroyed yet
C6_Witness ==
  /\ \E e \in Entities : collectCount[e] = 1 /\ e \notin destroyed
  /\ last.op \in {"update", "pointerdown"}
  /\ last.hits = <<>>

\* C7: gameOver starts false and, once true, stays true.
C7_GameOverMonotonic ==
  /\ gameOver = FALSE
  /\ [][gameOver => gameOver']_vars

C7_Witness == gameOver /\ last.op = "destroyTimer" /\ score = Threshold

\* C8: a replacement-spawn callback that fires while gameOver is true creates
\* no token and changes nothing but the timer it consumed.
C8_StaleSpawnDoesNothing ==
  [][(gameOver /\ last'.op = "spawnTimer")
       => /\ UNCHANGED progVars
          /\ collectCount' = collectCount
          /\ Len(timers') = Len(timers) - 1]_vars

C8_Witness == gameOver /\ signals >= 1 /\ last = Did("spawnTimer", Null, NoPos, <<>>, <<>>)

\* C9: every member of the active token set (activeTokens, or tokenEntity
\* while tokenExists) has not been collected and is not destroyed.
C9_ActiveTokensLive ==
  /\ \A i \in 1..Len(activeTokens) :
       activeTokens[i] \notin destroyed /\ collectCount[activeTokens[i]] = 0
  /\ tokenExists =>
       /\ tokenEntity # Null
       /\ tokenEntity \notin destroyed
       /\ collectCount[tokenEntity] = 0

C9_Witness ==
  /\ score >= 1
  /\ destroyed # {}
  /\ activeTokens # <<>> \/ tokenExists

\* C10: in every variant the step that collects a token leaves its entity
\* in the scene; the entity is destroyed by a later step.
C10_DestroyIsDeferred ==
  [][\A e \in Entities : CollectedNow(e) => e \notin destroyed']_vars

\* C11: a collect signal that refers to a token which is already destroyed
\* (or was collected before) changes nothing: not the score, the flag, the
\* live tokens or the pending timers; in particular it collects no other token.
C11_StaleSignalIsNoOp ==
  [][\A e \in Entities :
       (/\ variant # "pollSingle"
        /\ signals' = signals + 1
        /\ last'.ent = e
        /\ e \in destroyed)
         => /\ UNCHANGED progVars
            /\ timers' = timers
            /\ collectCount' = collectCount]_vars

\* the live tokens: members of the active set
NoLiveToken ==
  IF variant = "pollMulti" THEN Len(activeTokens) = 0
  ELSE ~tokenExists \/ tokenEntity = Null

LiveTokens == IF variant = "pollMulti" THEN Len(activeTokens)
              ELSE IF tokenExists THEN 1 ELSE 0

PendingSpawns == Cardinality({i \in 1..Len(timers) : timers[i].kind = "spawn"})

\* C12: a proximity check that runs while gameOver is true or while there is
\* no live token changes nothing, wherever the player stands.
C12_FrameNoOpWhenOverOrEmpty ==
  [][(last'.op = "update" /\ (gameOver \/ NoLiveToken))
       => /\ UNCHANGED progVars
          /\ timers' = timers
          /\ collectCount' = collectCount]_vars

\* the check ran after the win with a live token inside the radius
C12_Witness ==
  /\ gameOver
  /\ last.op = "update"
  /\ \E i \in 1..Len(activeTokens) :
       /\ activeTokens[i] \notin destroyed
       /\ DistSq(pos[activeTokens[i]], last.player) < Radius * Radius

\* C13: live tokens plus pending replacement spawns is 1 while playing and 0
\* once won.
C13_OneTokenOrOneSpawn ==
  LiveTokens + PendingSpawns = (IF gameOver THEN 0 ELSE 1)

C13_Witness == ~gameOver /\ score >= 1 /\ LiveTokens = 0 /\ PendingSpawns = 1

\* a successful collect just ran
Collected == last.hits # <<>>

\* C14 as stated: within one successful collect the token is removed first,
\* then score is incremented, and only then the collect sound is played and
\* the scoreboard redrawn.
C14_RemoveScoreThenSound ==
  Collected =>
    /\ IndexOf(last.effects, "remove") < IndexOf(last.effects, "score")
    /\ IndexOf(last.effects, "score") < IndexOf(last.effects, "collectSound")
    /\ IndexOf(last.effects, "score") < IndexOf(last.effects, "render")

\* C14 as amended: within one successful collect the token is removed and the
\* collect sound is played before score is incremented, and the scoreboard is
\* redrawn only after the increment.
C14_RemoveAndSoundThenScore ==
  Collected =>
    /\ IndexOf(last.effects, "remove") # 0
    /\ IndexOf(last.effects, "collectSound") # 0
    /\ IndexOf(last.effects, "remove") < IndexOf(last.effects, "score")
    /\ IndexOf(last.effects, "collectSound") < IndexOf(last.effects, "score")
    /\ IndexOf(last.effects, "score") < IndexOf(last.effects, "render")

C14_Witness == Collected /\ variant = "clickDeferred" /\ score = 1

\* C15: the timer is off before the first collection; the collection that
\* makes score 1 starts it at elapsed 0; elapsed never decreases while it
\* runs; the collection that makes score the stop milestone freezes it, and
\* elapsed never changes afterwards.
C15_TimerStartsAndFreezes ==
  /\ [](score = 0 => timer = TimerOff)
  /\ [][(score = 0 /\ score' = 1)
          => (timer'.started /\ ~timer'.finished /\ timer'.elapsed = 0)]_vars
  /\ [][timer'.elapsed >= timer.elapsed]_vars
  /\ [][(score = StopMilestone - 1 /\ score' = StopMilestone)
          => (timer'.finished /\ timer'.elapsed = timer.elapsed)]_vars
  /\ [][timer.finished => timer' = timer]_vars

\* a frame ticked after the freeze, with time on the clock
C15_Witness ==
  /\ timer.finished
  /\ timer.elapsed > 0
  /\ score > StopMilestone
  /\ last.op = "tick"

\* C16: the scoreboard shows the current score and the current gameOver
\* value in every state between operations; the collect that wins has
\* repainted it with the win banner.
C16_BoardShowsSession == board = [score |-> score, win |-> gameOver]

C16_Witness == Collected /\ gameOver /\ board.win /\ board.score = Threshold

\* C17: the victory sound has been played once if the session is won and
\* not at all while it is playing, it is played by the collect that makes
\* score reach the threshold, and the collect sound has been played once per
\* successful collection.
C17_SoundsOncePerEvent ==
  /\ [](victoryPlays = (IF gameOver THEN 1 ELSE 0))
  /\ [](collectPlays = Collections)
  /\ [][victoryPlays' # victoryPlays
          => (score = Threshold - 1 /\ score' = Threshold /\ last'.hits # <<>>)]_vars

C17_Witness == victoryPlays = 1 /\ collectPlays = Threshold /\ last.op = "destroyTimer"

\* C18: a proximity check that collects takes the first entry of
\* activeTokens, in insertion order, that is not destroyed and lies inside
\* the radius, and removes that entry only.
C18_EarliestInsideWins ==
  [][(variant = "pollMulti" /\ last'.op = "update")
       => \A e \in Entities :
            CollectedNow(e)
              => /\ IndexOf(activeTokens, e) # 0
                 /\ \A j \in 1..(IndexOf(activeTokens, e) - 1) :
                      \/ activeTokens[j] \in destroyed
                      \/ DistSq(pos[activeTokens[j]], last'.player)
                           >= RadiusMulti * RadiusMulti
                 /\ activeTokens' = RemoveAt(activeTokens, IndexOf(activeTokens, e))]_vars

\* the check took a token and left a later-inserted one, also inside the radius
C18_Witness ==
  /\ variant = "pollMulti"
  /\ last.op = "update"
  /\ Collected
  /\ \E i \in 1..Len(activeTokens) :
       /\ activeTokens[i] > last.hits[1][1]
       /\ activeTokens[i] \notin destroyed
       /\ DistSq(pos[activeTokens[i]], last.player) < RadiusMulti * RadiusMulti

\* C19: score stays between 0 and the win threshold.
C19_ScoreWithinThreshold == 0 <= score /\ score <= Threshold

C19_Witness == score = Threshold /\ signals >= 1 /\ last.op = "signal"

\* C20: if every scheduled callback eventually fires and every live token is
\* eventually collected, the session ends up won for good, with score equal
\* to the win threshold, no live token and no pending spawn.
C20_EventuallyWon ==
  <>[](gameOver /\ score = Threshold /\ LiveTokens = 0 /\ PendingSpawns = 0)

C20_Witness ==
  gameOver /\ score = Threshold /\ LiveTokens = 0 /\ timers = <<>> /\ destroyed = Entities

\* the step calls entity.destroy() on e: in the deferred callback, or inside
\* collectToken
DestroyCalled(e) ==
  \/ last' = Did("destroyTimer", e, NoPos, <<>>, <<"destroy">>)
  \/ CollectedNow(e) /\ IndexOf(last'.effects, "destroy") # 0

\* C21: destroy() is only ever called on an entity that is not destroyed yet
\* and that was collected, a destroyed entity stays destroyed, every
\* collected token's entity is eventually destroyed, and once the session is
\* won and no callback is pending every token entity is destroyed.  (No run
\* creates more entities than the larger win threshold.)
C21_CollectedDestroyedOnce ==
  /\ [][\A e \in Entities :
          DestroyCalled(e)
            => (e \notin destroyed /\ e \in destroyed' /\ collectCount'[e] >= 1)]_vars
  /\ [][destroyed \subseteq destroyed']_vars
  /\ \A e \in 1..WinScoreSingle :
       (e \in Entities /\ collectCount[e] >= 1) ~> (e \in Entities /\ e \in destroyed)
  /\ [](gameOver /\ timers = <<>> => destroyed = Entities)

\* the last deferred destroy of a won session has just run
C21_Witness ==
  /\ gameOver
  /\ timers = <<>>
  /\ destroyed = Entities
  /\ last = Did("destroyTimer", Threshold, NoPos, <<>>, <<"destroy">>)

\* the tokens createToken has made so far, the initial one included
Spawned == nextId - 1

\* C22: the number of tokens ever spawned is score plus the number of live
\* tokens and never exceeds the win threshold; a spawn makes one token, in
\* the replacement callback, when every earlier token has been collected.
C22_SpawnedIsScorePlusLive ==
  /\ [](Spawned = score + LiveTokens)
  /\ [](Spawned <= Threshold)
  /\ [][nextId' # nextId
          => /\ nextId' = nextId + 1
             /\ last'.op = "spawnTimer"
             /\ LiveTokens = 0
             /\ score = Spawned
             /\ \A e \in Entities : collectCount[e] = 1]_vars

\* the last replacement of a run has just been spawned
C22_Witness ==
  /\ Spawned = Threshold
  /\ score = Threshold - 1
  /\ LiveTokens = 1
  /\ last.op = "spawnTimer"

\* the session state the single-token variants have in common
Session == [score |-> score, gameOver |-> gameOver, tokenExists |-> tokenExists]

\* the step delivers a collection trigger: a pointerdown on a token of a
\* click variant, or a frame of the poll variant with the player strictly
\* inside the radius of a token that is in the scene
CollectionTrigger ==
  \/ /\ variant \in {"clickDeferred", "clickImmediate"}
     /\ last'.op = "pointerdown"
  \/ /\ variant = "pollSingle"
     /\ last'.op = "update"
     /\ \E e \in Entities \ destroyed :
          DistSq(pos[e], last'.player) < RadiusSingle * RadiusSingle

\* what a collection trigger does to the session state, whichever variant runs
AfterTrigger(s) ==
  IF s.tokenExists /\ ~s.gameOver
  THEN [score |-> s.score + 1, gameOver |-> s.score + 1 >= WinScoreSingle,
        tokenExists |-> FALSE]
  ELSE s

\* what a firing of the replacement-spawn timer does to it
AfterSpawnTimer(s) == IF s.gameOver THEN s ELSE [s EXCEPT !.tokenExists = TRUE]

\* C23: the three single-token variants start from the same (score,
\* gameOver, tokenExists) and every step of each of them changes it by the
\* same function of its value and of the input: a collection trigger, a
\* firing of the spawn timer, or anything else (a frame that misses, the
\* deferred destroy), which leaves it alone.  The same inputs therefore take
\* the three variants through the same sequence of values.
C23_SingleVariantsAgree ==
  /\ variant \in SingleVariants
       => Session = [score |-> 0, gameOver |-> FALSE, tokenExists |-> TRUE]
  /\ [][(variant \in SingleVariants)
          => Session' = (IF CollectionTrigger THEN AfterTrigger(Session)
                         ELSE IF last'.op = "spawnTimer" THEN AfterSpawnTimer(Session)
                         ELSE Session)]_vars

\* the deferred variant took its second token, whose entity is still in the
\* scene with its destroy pending
C23_Witness ==
  /\ variant = "clickDeferred"
  /\ Collected
  /\ Session = [score |-> 2, gameOver |-> FALSE, tokenExists |-> FALSE]
  /\ Len(timers) = 2
  /\ 2 \notin destroyed

\* C24: in the single-token variants tokenExists is true exactly when
\* tokenEntity is non-null, and then tokenEntity is a created entity that is
\* neither collected nor destroyed while every other created token has been
\* collected.
C24_SlotAgrees ==
  variant \in SingleVariants =>
    /\ tokenExists <=> tokenEntity # Null
    /\ tokenExists =>
         /\ tokenEntity \in Entities
         /\ collectCount[tokenEntity] = 0
         /\ tokenEntity \notin destroyed
         /\ \A e \in Entities \ {tokenEntity} : collectCount[e] = 1

\* the slot holds the replacement of the first token, which was collected
\* through handleTokenCollected and destroyed by its deferred callback
C24_Witness ==
  /\ variant = "clickDeferred"
  /\ tokenExists
  /\ tokenEntity = 2
  /\ collectCount[1] = 1
  /\ 1 \in destroyed

====
